---- MODULE Spec2Model ----
(***************************************************************************)
(* Photo gallery API (src/main.py): three request handlers over two        *)
(* backing stores.  The asset store (Cloudinary) is the set `assets`, the  *)
(* metadata store (the MongoDB collection photo_collection) is the         *)
(* sequence `photos_coll` in insertion order.  Every call a handler makes  *)
(* to a store is one atomic step; between two calls of one request the     *)
(* steps of other requests may interleave.  Every store call may raise.    *)
(*                                                                         *)
(* What the stores do is taken from their interfaces: a call that raises   *)
(* leaves its store unchanged, except destroy, which may have removed the  *)
(* asset before it raised; an upload of zero bytes always raises; destroy  *)
(* of an absent asset returns normally; the sort on created_at keeps       *)
(* documents of equal created_at in insertion order.                       *)
(*                                                                         *)
(* Spec is the upload and delete orchestration with two requests in        *)
(* flight; none of its properties reads created_at.  PageSpec is the       *)
(* listing over a dataset that does not change.  ListSpec is the listing   *)
(* while one upload or delete at a time changes the dataset.  DeleteSpec   *)
(* is three deletes in flight over the photos of a filled store.           *)
(***************************************************************************)
EXTENDS Integers, Sequences, FiniteSets, TLC

\* ---- bounds of the model
MaxPhotos == 2        \* uploads accepted by the asset store in one run
MaxClock == 0         \* an upload's datetime.utcnow() returns a value in 0..MaxClock
MaxPage == 3          \* largest page a client asks for
MaxLimit == 2         \* largest limit a client asks for
MaxStored == 3        \* PageSpec: photos uploaded before the listing starts
MaxInstant == 2       \* PageSpec: their created_at is a value in 0..MaxInstant

\* ---- program constants
DefaultLimit == 10    \* limit < 1 is replaced by this value

\* Two request slots: at most two requests are in flight at any time, and
\* a slot takes a new request when its response is sent.
Requests == {1, 2}
Pages == 0..MaxPage
Limits == 0..MaxLimit
Titles == {"a"}
\* file: no file name / a named file of zero bytes / a named file with bytes
Files == {"noname", "empty", "data"}

\* Optional values: <<>> is Python's None, <<x>> is the value x.
None == <<>>
Some(x) == <<x>>

Min(a, b) == IF a < b THEN a ELSE b

\* ---- identifiers on the wire and in the store
\* An ObjectId is a positive integer n; its string form is <<"hex", n>>.
\* <<"bad", 0>> is a string that is no 24-character hex string.
Str(oid) == <<"hex", oid>>

\* Faulty variant: every string passes the format check.
ObjectIdIsValidLax(id) == TRUE

ObjectIdIsValid(id) == id[1] = "hex"
ObjectId(id) == id[2]
WireIds == {<<"bad", 0>>} \cup {Str(n) : n \in 1..(MaxPhotos + 1)}

\* The locator the asset store returns for the asset public_id.
SecureUrl(public_id) == 100 + public_id

\* ---- pagination (get_all_photos)
NormPage(page) == IF page < 1 THEN 1 ELSE page

\* Faulty variant: limit < 1 raised to the least valid limit.
NormLimitOne(limit) == IF limit < 1 THEN 1 ELSE limit

NormLimit(limit) == IF limit < 1 THEN DefaultLimit ELSE limit

\* Faulty variant: pages counted from 0.
SkipOffByOne(page, limit) == page * limit

Skip(page, limit) == (page - 1) * limit

\* Faulty variant: the division without the round-up term.
TotalPagesFloor(total_photos, limit) == total_photos \div limit

TotalPages(total_photos, limit) == (total_photos + limit - 1) \div limit

CountDocuments(coll) == Len(coll)

\* sort("created_at", -1): descending, documents of equal created_at in
\* insertion order (the store's stable order).
InsertDesc(s, d) ==
  LET k == Cardinality({i \in 1..Len(s) : s[i].created_at >= d.created_at})
  IN SubSeq(s, 1, k) \o <<d>> \o SubSeq(s, k + 1, Len(s))

RECURSIVE SortDesc(_)
SortDesc(coll) ==
  IF coll = <<>> THEN <<>>
  ELSE InsertDesc(SortDesc(SubSeq(coll, 1, Len(coll) - 1)), coll[Len(coll)])

\* Faulty variant: the sort left out, documents in insertion order.
SortInsertionOrder(coll) == coll

SortCreatedAt(coll) == SortDesc(coll)

\* Faulty variant: the cursor yields one document more than the limit.
SkipLimitOneMore(s, skip, limit) == SubSeq(s, skip + 1, Min(Len(s), skip + limit + 1))

\* cursor.skip(skip).limit(limit).to_list(length=limit)
SkipLimit(s, skip, limit) == SubSeq(s, skip + 1, Min(Len(s), skip + limit))

Find(coll, skip, limit) == SkipLimit(SortCreatedAt(coll), skip, limit)

\* photo["_id"] = str(photo["_id"])
StrId(doc) == [doc EXCEPT !.id = Str(@)]

FindOne(coll, oid) ==
  IF \E i \in 1..Len(coll) : coll[i].id = oid
  THEN Some(coll[CHOOSE i \in 1..Len(coll) : coll[i].id = oid])
  ELSE None

\* The page of documents as serialised in the response.
Photos(coll, page, limit) ==
  LET found == Find(coll, Skip(page, limit), limit)
  IN [i \in 1..Len(found) |-> StrId(found[i])]

\* The response body of GET /photos when both store calls return.
ListBody(total_photos, photos, page, limit) ==
  [photos |-> photos,
   page |-> page,
   limit |-> limit,
   total_photos |-> total_photos,
   total_pages |-> TotalPages(total_photos, limit)]

\* get_all_photos over a collection that does not change between its calls.
ListPhotos(coll, page, limit) ==
  ListBody(CountDocuments(coll),
           Photos(coll, NormPage(page), NormLimit(limit)),
           NormPage(page), NormLimit(limit))

\* ---- upload_photo
\* The asset store stores a file that has bytes; an upload of zero bytes
\* raises (Cloudinary answers "Empty file").
UploadAccepts(file) == file = "data"

UploadResult(public_id) ==
  [public_id |-> public_id, secure_url |-> SecureUrl(public_id),
   width |-> 1, height |-> 1]

\* Faulty variant: public_id and secure_url taken from each other's field.
PhotoDataSwapped(title, upload_result, now) ==
  [title |-> title,
   public_id |-> upload_result.secure_url,
   secure_url |-> upload_result.public_id,
   width |-> upload_result.width,
   height |-> upload_result.height,
   created_at |-> now]

\* photo_data, built from the upload's result and datetime.utcnow().
PhotoData(title, upload_result, now) ==
  [title |-> title,
   public_id |-> upload_result.public_id,
   secure_url |-> upload_result.secure_url,
   width |-> upload_result.width,
   height |-> upload_result.height,
   created_at |-> now]

\* insert_one stores the document under the id the store assigns.
Document(photo_data, oid) ==
  [id |-> oid,
   title |-> photo_data.title,
   public_id |-> photo_data.public_id,
   secure_url |-> photo_data.secure_url,
   width |-> photo_data.width,
   height |-> photo_data.height,
   created_at |-> photo_data.created_at]

\* ---- delete_photo
\* The handler's whole body is inside try ... except Exception, and
\* HTTPException is an Exception: whatever is raised inside, the 400 and
\* the 404 included, leaves the handler as HTTPException(500).
DeletePhotoExcept(status_code) == 500

\* Faulty variant: delete_one reports one deleted document whether or not
\* it found one.
DeletedCountAlwaysOne(coll, oid) == 1

\* delete_one: the collection without the document of that id.
DeleteOne(coll, oid) == SelectSeq(coll, LAMBDA d : d.id # oid)
DeletedCount(coll, oid) == Len(coll) - Len(DeleteOne(coll, oid))

\* ---- state
VARIABLES
  assets,           \* asset store: the public_ids it holds
  photos_coll,      \* metadata store: the documents, in insertion order
  next_public_id,   \* the public_id the asset store assigns next
  next_oid,         \* the ObjectId the metadata store assigns next
  pc,               \* per request slot: the handler's position
  req,              \* per request slot: the request's inputs
  local,            \* per request slot: the handler's local variables
  calls,            \* per request slot: the store calls issued so far
  raised,           \* per request slot: what raised in the handler, if anything
  resp,             \* per request slot: the HTTP response
  destroyed,        \* history: public_ids uploader.destroy was called with
  removed           \* history: ObjectIds whose document a delete_one removed

stores == <<assets, photos_coll, next_public_id, next_oid>>
history == <<destroyed, removed>>
vars == <<assets, photos_coll, next_public_id, next_oid,
          pc, req, local, calls, raised, resp,
          destroyed, removed>>

\* The ids for which DELETE /photos/{id} has answered 200: the handler
\* answers 200 exactly when its delete_one removed the document.
succeeded == {Str(oid) : oid \in removed}

NoReq == [op |-> "none", page |-> 0, limit |-> 0, title |-> "",
          file |-> "noname", id |-> <<"bad", 0>>]
NoLocal == [page |-> 0, limit |-> 0, total_photos |-> 0,
            upload_result |-> None, photo_data |-> None, result |-> None,
            photo_to_delete |-> None]
NoResp == [status |-> 0, body |-> None]

Init ==
  /\ assets = {}
  /\ photos_coll = <<>>
  /\ next_public_id = 1
  /\ next_oid = 1
  /\ pc = [p \in Requests |-> "idle"]
  /\ req = [p \in Requests |-> NoReq]
  /\ local = [p \in Requests |-> NoLocal]
  /\ calls = [p \in Requests |-> <<>>]
  /\ raised = [p \in Requests |-> "none"]
  /\ resp = [p \in Requests |-> NoResp]
  /\ destroyed = {}
  /\ removed = {}

\* The handler leaves with a response; `exc` is what raised ("none" on return).
Return(p, status, body, exc) ==
  /\ pc' = [pc EXCEPT ![p] = "done"]
  /\ resp' = [resp EXCEPT ![p] = [status |-> status, body |-> body]]
  /\ raised' = [raised EXCEPT ![p] = exc]

Goto(p, label) ==
  /\ pc' = [pc EXCEPT ![p] = label]
  /\ UNCHANGED <<resp, raised>>

\* The handler calls store operation `fn`; `ok` is whether the call returns
\* (TRUE) or raises (FALSE).
Call(p, fn, ok) == calls' = [calls EXCEPT ![p] = Append(@, [fn |-> fn, ok |-> ok])]

\* ---- GET /photos
\* Normalisation, skip and count_documents.
GetAllPhotosCount(p) ==
  /\ pc[p] = "idle"
  /\ \E page \in Pages, limit \in Limits :
       /\ req' = [req EXCEPT ![p] = [NoReq EXCEPT !.op = "list", !.page = page, !.limit = limit]]
       /\ \/ /\ Call(p, "count_documents", FALSE)
             /\ local' = [local EXCEPT ![p] = [NoLocal EXCEPT !.page = NormPage(page),
                                                              !.limit = NormLimit(limit)]]
             /\ Return(p, 500, None, "count_documents")
          \/ /\ Call(p, "count_documents", TRUE)
             /\ local' = [local EXCEPT ![p] = [NoLocal EXCEPT !.page = NormPage(page),
                                                              !.limit = NormLimit(limit),
                                                              !.total_photos = CountDocuments(photos_coll)]]
             /\ Goto(p, "list_find")
  /\ UNCHANGED <<stores, history>>

\* Faulty variant of the second step: the sort is done in place, on the
\* stored collection.
GetAllPhotosFindSortInPlace(p) ==
  /\ pc[p] = "list_find"
  /\ \/ /\ Call(p, "find", FALSE)
        /\ Return(p, 500, None, "find")
        /\ UNCHANGED photos_coll
     \/ /\ Call(p, "find", TRUE)
        /\ photos_coll' = SortCreatedAt(photos_coll)
        /\ Return(p, 200,
                  Some(ListBody(local[p].total_photos,
                                Photos(photos_coll, local[p].page, local[p].limit),
                                local[p].page, local[p].limit)),
                  "none")
  /\ UNCHANGED <<assets, next_public_id, next_oid, history, req, local>>

\* find().sort().skip().limit(), the string ids, total_pages and the return.
GetAllPhotosFind(p) ==
  /\ pc[p] = "list_find"
  /\ \/ /\ Call(p, "find", FALSE)
        /\ Return(p, 500, None, "find")
     \/ /\ Call(p, "find", TRUE)
        /\ Return(p, 200,
                  Some(ListBody(local[p].total_photos,
                                Photos(photos_coll, local[p].page, local[p].limit),
                                local[p].page, local[p].limit)),
                  "none")
  /\ UNCHANGED <<stores, history, req, local>>

\* ---- POST /photos/upload
\* Faulty variant of the first step: an upload that raises is ignored and
\* the handler goes on to insert_one with the id the asset would have had.
UploadPhotoSwallowed(p) ==
  /\ pc[p] = "idle"
  /\ \E title \in Titles, file \in Files :
       /\ req' = [req EXCEPT ![p] = [NoReq EXCEPT !.op = "create", !.title = title, !.file = file]]
       /\ IF file = "noname"
          THEN /\ Return(p, 400, None, "HTTP400")
               /\ UNCHANGED <<stores, calls, local>>
          ELSE /\ \/ /\ Call(p, "upload", FALSE)
                     /\ next_public_id <= MaxPhotos
                     /\ \E now \in 0..MaxClock :
                          local' = [local EXCEPT ![p] =
                            [NoLocal EXCEPT !.photo_data =
                               Some(PhotoData(title, UploadResult(next_public_id), now))]]
                     /\ Goto(p, "up_insert")
                     /\ UNCHANGED stores
                  \/ /\ Call(p, "upload", TRUE)
                     /\ UploadAccepts(file)
                     /\ next_public_id <= MaxPhotos
                     /\ \E now \in 0..MaxClock :
                          local' = [local EXCEPT ![p] =
                            [NoLocal EXCEPT !.upload_result = Some(UploadResult(next_public_id)),
                                            !.photo_data =
                               Some(PhotoData(title, UploadResult(next_public_id), now))]]
                     /\ assets' = assets \cup {next_public_id}
                     /\ next_public_id' = next_public_id + 1
                     /\ Goto(p, "up_insert")
                     /\ UNCHANGED <<photos_coll, next_oid>>
  /\ UNCHANGED history

\* The file check, cloudinary.uploader.upload and photo_data.  datetime.utcnow()
\* is the wall clock: it may return any instant, also an earlier one than
\* the call before.
UploadPhoto(p) ==
  /\ pc[p] = "idle"
  /\ \E title \in Titles, file \in Files :
       /\ req' = [req EXCEPT ![p] = [NoReq EXCEPT !.op = "create", !.title = title, !.file = file]]
       /\ IF file = "noname"
          THEN /\ Return(p, 400, None, "HTTP400")
               /\ UNCHANGED <<stores, calls, local>>
          ELSE /\ \/ /\ Call(p, "upload", FALSE)
                     /\ Return(p, 500, None, "upload")
                     /\ UNCHANGED <<stores, local>>
                  \/ /\ Call(p, "upload", TRUE)
                     /\ UploadAccepts(file)
                     /\ next_public_id <= MaxPhotos
                     /\ \E now \in 0..MaxClock :
                          local' = [local EXCEPT ![p] =
                            [NoLocal EXCEPT !.upload_result = Some(UploadResult(next_public_id)),
                                            !.photo_data =
                               Some(PhotoData(title, UploadResult(next_public_id), now))]]
                     /\ assets' = assets \cup {next_public_id}
                     /\ next_public_id' = next_public_id + 1
                     /\ Goto(p, "up_insert")
                     /\ UNCHANGED <<photos_coll, next_oid>>
  /\ UNCHANGED history

\* Faulty variant of the insert step: an insert_one that raises is tried
\* once more.
UploadPhotoInsertOneRetried(p) ==
  /\ pc[p] = "up_insert"
  /\ \/ /\ Call(p, "insert_one", FALSE)
        /\ IF calls[p][Len(calls[p])].fn = "insert_one"
           THEN Return(p, 500, None, "insert_one")
           ELSE Goto(p, "up_insert")
        /\ UNCHANGED <<stores, local>>
     \/ /\ Call(p, "insert_one", TRUE)
        /\ photos_coll' = Append(photos_coll, Document(local[p].photo_data[1], next_oid))
        /\ next_oid' = next_oid + 1
        /\ local' = [local EXCEPT ![p].result = Some(next_oid)]
        /\ Goto(p, "up_find")
        /\ UNCHANGED <<assets, next_public_id>>
  /\ UNCHANGED <<history, req>>

\* Faulty variant of the insert step: when insert_one raises, the handler
\* destroys the asset it has just uploaded before it answers.
UploadPhotoInsertOneCompensated(p) ==
  /\ pc[p] = "up_insert"
  /\ \/ /\ calls' = [calls EXCEPT ![p] = @ \o <<[fn |-> "insert_one", ok |-> FALSE],
                                                [fn |-> "destroy", ok |-> TRUE]>>]
        /\ assets' = assets \ {local[p].photo_data[1].public_id}
        /\ destroyed' = destroyed \cup {local[p].photo_data[1].public_id}
        /\ Return(p, 500, None, "insert_one")
        /\ UNCHANGED <<photos_coll, next_public_id, next_oid, local, removed>>
     \/ /\ Call(p, "insert_one", TRUE)
        /\ photos_coll' = Append(photos_coll, Document(local[p].photo_data[1], next_oid))
        /\ next_oid' = next_oid + 1
        /\ local' = [local EXCEPT ![p].result = Some(next_oid)]
        /\ Goto(p, "up_find")
        /\ UNCHANGED <<assets, next_public_id, history>>
  /\ UNCHANGED req

\* photo_collection.insert_one(photo_data)
UploadPhotoInsertOne(p) ==
  /\ pc[p] = "up_insert"
  /\ \/ /\ Call(p, "insert_one", FALSE)
        /\ Return(p, 500, None, "insert_one")
        /\ UNCHANGED <<stores, local>>
     \/ /\ Call(p, "insert_one", TRUE)
        /\ photos_coll' = Append(photos_coll, Document(local[p].photo_data[1], next_oid))
        /\ next_oid' = next_oid + 1
        /\ local' = [local EXCEPT ![p].result = Some(next_oid)]
        /\ Goto(p, "up_find")
        /\ UNCHANGED <<assets, next_public_id>>
  /\ UNCHANGED <<history, req>>

\* photo_collection.find_one({"_id": result.inserted_id}), the string id, the return.
UploadPhotoFindOne(p) ==
  /\ pc[p] = "up_find"
  /\ \/ /\ Call(p, "find_one", FALSE)
        /\ Return(p, 500, None, "find_one")
     \/ /\ Call(p, "find_one", TRUE)
        /\ LET created_photo == FindOne(photos_coll, local[p].result[1])
           IN IF created_photo = None
              THEN Return(p, 500, None, "TypeError")
              ELSE Return(p, 200, Some(StrId(created_photo[1])), "none")
  /\ UNCHANGED <<stores, history, req, local>>

\* ---- DELETE /photos/{id}
\* Faulty variant of the first step: when the lookup finds nothing the
\* handler skips destroy and goes on to delete_one.
DeletePhotoFindOneUnchecked(p) ==
  /\ pc[p] = "idle"
  /\ \E id \in WireIds :
       /\ req' = [req EXCEPT ![p] = [NoReq EXCEPT !.op = "delete", !.id = id]]
       /\ IF ~ObjectIdIsValid(id)
          THEN /\ Return(p, DeletePhotoExcept(400), None, "HTTP400")
               /\ UNCHANGED <<calls, local>>
          ELSE /\ \/ /\ Call(p, "find_one", FALSE)
                     /\ Return(p, DeletePhotoExcept(500), None, "find_one")
                     /\ UNCHANGED local
                  \/ /\ Call(p, "find_one", TRUE)
                     /\ local' = [local EXCEPT ![p] =
                          [NoLocal EXCEPT !.photo_to_delete = FindOne(photos_coll, ObjectId(id))]]
                     /\ IF FindOne(photos_coll, ObjectId(id)) = None
                        THEN Goto(p, "del_delete")
                        ELSE Goto(p, "del_destroy")
  /\ UNCHANGED <<stores, destroyed, removed>>

\* ObjectId.is_valid, ObjectId(id), find_one and the not-found check.
DeletePhotoFindOne(p) ==
  /\ pc[p] = "idle"
  /\ \E id \in WireIds :
       /\ req' = [req EXCEPT ![p] = [NoReq EXCEPT !.op = "delete", !.id = id]]
       /\ IF ~ObjectIdIsValid(id)
          THEN /\ Return(p, DeletePhotoExcept(400), None, "HTTP400")
               /\ UNCHANGED <<calls, local>>
          ELSE /\ \/ /\ Call(p, "find_one", FALSE)
                     /\ Return(p, DeletePhotoExcept(500), None, "find_one")
                     /\ UNCHANGED local
                  \/ /\ Call(p, "find_one", TRUE)
                     /\ local' = [local EXCEPT ![p] =
                          [NoLocal EXCEPT !.photo_to_delete = FindOne(photos_coll, ObjectId(id))]]
                     /\ IF FindOne(photos_coll, ObjectId(id)) = None
                        THEN Return(p, DeletePhotoExcept(404), None, "HTTP404")
                        ELSE Goto(p, "del_destroy")
  /\ UNCHANGED <<stores, destroyed, removed>>

\* Faulty variant of the destroy step: a destroy that raises is ignored and
\* the handler goes on to delete_one.
DeletePhotoDestroyIgnored(p) ==
  /\ pc[p] = "del_destroy"
  /\ destroyed' = destroyed \cup {local[p].photo_to_delete[1].public_id}
  /\ \/ /\ Call(p, "destroy", FALSE)
        /\ assets' \in {assets, assets \ {local[p].photo_to_delete[1].public_id}}
        /\ Goto(p, "del_delete")
     \/ /\ Call(p, "destroy", TRUE)
        /\ assets' = assets \ {local[p].photo_to_delete[1].public_id}
        /\ Goto(p, "del_delete")
  /\ UNCHANGED <<photos_coll, next_public_id, next_oid, removed, req, local>>

\* cloudinary.uploader.destroy(photo_to_delete["public_id"]).  A destroy of
\* an asset that is already gone returns normally.  A destroy that raises
\* may or may not have removed the asset.
DeletePhotoDestroy(p) ==
  /\ pc[p] = "del_destroy"
  /\ destroyed' = destroyed \cup {local[p].photo_to_delete[1].public_id}
  /\ \/ /\ Call(p, "destroy", FALSE)
        /\ assets' \in {assets, assets \ {local[p].photo_to_delete[1].public_id}}
        /\ Return(p, DeletePhotoExcept(500), None, "destroy")
     \/ /\ Call(p, "destroy", TRUE)
        /\ assets' = assets \ {local[p].photo_to_delete[1].public_id}
        /\ Goto(p, "del_delete")
  /\ UNCHANGED <<photos_coll, next_public_id, next_oid, removed, req, local>>

\* Faulty variant of the last step: the handler answers 200 whenever
\* delete_one returns, whatever its deleted_count.
DeletePhotoDeleteOneAnyCount(p) ==
  /\ pc[p] = "del_delete"
  /\ \/ /\ Call(p, "delete_one", FALSE)
        /\ Return(p, DeletePhotoExcept(500), None, "delete_one")
        /\ UNCHANGED <<photos_coll, removed>>
     \/ /\ Call(p, "delete_one", TRUE)
        /\ photos_coll' = DeleteOne(photos_coll, ObjectId(req[p].id))
        /\ Return(p, 200, Some([status |-> "success"]), "none")
        /\ removed' = removed \cup {ObjectId(req[p].id)}
  /\ UNCHANGED <<assets, next_public_id, next_oid, destroyed, req, local>>

\* delete_one, the deleted_count check and the return.
DeletePhotoDeleteOne(p) ==
  /\ pc[p] = "del_delete"
  /\ \/ /\ Call(p, "delete_one", FALSE)
        /\ Return(p, DeletePhotoExcept(500), None, "delete_one")
        /\ UNCHANGED <<photos_coll, removed>>
     \/ /\ Call(p, "delete_one", TRUE)
        /\ photos_coll' = DeleteOne(photos_coll, ObjectId(req[p].id))
        /\ IF DeletedCount(photos_coll, ObjectId(req[p].id)) = 1
           THEN /\ Return(p, 200, Some([status |-> "success"]), "none")
                /\ removed' = removed \cup {ObjectId(req[p].id)}
           ELSE /\ Return(p, DeletePhotoExcept(404), None, "HTTP404")
                /\ UNCHANGED removed
  /\ UNCHANGED <<assets, next_public_id, next_oid, destroyed, req, local>>

\* The response is sent; the slot takes the next request.
Respond(p) ==
  /\ pc[p] = "done"
  /\ pc' = [pc EXCEPT ![p] = "idle"]
  /\ req' = [req EXCEPT ![p] = NoReq]
  /\ local' = [local EXCEPT ![p] = NoLocal]
  /\ calls' = [calls EXCEPT ![p] = <<>>]
  /\ raised' = [raised EXCEPT ![p] = "none"]
  /\ resp' = [resp EXCEPT ![p] = NoResp]
  /\ UNCHANGED <<stores, destroyed, removed>>

\* The upload and delete orchestrations, two requests in flight.
Next ==
  \E p \in Requests :
    \/ UploadPhoto(p)
    \/ UploadPhotoInsertOne(p)
    \/ UploadPhotoFindOne(p)
    \/ DeletePhotoFindOne(p)
    \/ DeletePhotoDestroy(p)
    \/ DeletePhotoDeleteOne(p)
    \/ Respond(p)

Spec == Init /\ [][Next]_vars

\* GET /photos in slot 1 while slot 2 serves uploads and deletes.
ListNext ==
  \/ GetAllPhotosCount(1)
  \/ GetAllPhotosFind(1)
  \/ UploadPhoto(2)
  \/ UploadPhotoInsertOne(2)
  \/ UploadPhotoFindOne(2)
  \/ DeletePhotoFindOne(2)
  \/ DeletePhotoDestroy(2)
  \/ DeletePhotoDeleteOne(2)
  \/ \E p \in Requests : Respond(p)

ListSpec == Init /\ [][ListNext]_vars

\* ---- the listing over a dataset that does not change
\* The store after photos 1..n were uploaded at the instants t and those
\* not in `kept` were deleted again.
StoredAfter(n, kept, t) ==
  SelectSeq([i \in 1..n |-> Document(PhotoData("a", UploadResult(i), t[i]), i)],
            LAMBDA d : d.id \in kept)

\* 25 photos created oldest to newest.
TwentyFive == StoredAfter(25, 1..25, [i \in 1..25 |-> i])

PageInitStore(n, kept, coll) ==
  /\ photos_coll = coll
  /\ assets = kept
  /\ next_public_id = n + 1
  /\ next_oid = n + 1
  /\ destroyed = (1..n) \ kept
  /\ removed = (1..n) \ kept

PageInit ==
  /\ \/ \E n \in 0..MaxStored : \E kept \in SUBSET (1..n) :
          \E t \in [1..n -> 0..MaxInstant] :
            PageInitStore(n, kept, StoredAfter(n, kept, t))
     \/ PageInitStore(25, 1..25, TwentyFive)
  /\ pc = [p \in Requests |-> "idle"]
  /\ req = [p \in Requests |-> NoReq]
  /\ local = [p \in Requests |-> NoLocal]
  /\ calls = [p \in Requests |-> <<>>]
  /\ raised = [p \in Requests |-> "none"]
  /\ resp = [p \in Requests |-> NoResp]

\* GET /photos requests, one at a time, and no upload or delete.
PageNext ==
  \/ GetAllPhotosCount(1)
  \/ GetAllPhotosFind(1)
  \/ Respond(1)

PageSpec == PageInit /\ [][PageNext]_vars

\* ---- deletes racing for the same photos
\* Three request slots, all serving DELETE /photos/{id}.
Deleters == {1, 2, 3}

\* The store after MaxPhotos uploads; no request in flight.
DeleteInit ==
  /\ PageInitStore(MaxPhotos, 1..MaxPhotos,
                   StoredAfter(MaxPhotos, 1..MaxPhotos, [i \in 1..MaxPhotos |-> 0]))
  /\ pc = [p \in Deleters |-> "idle"]
  /\ req = [p \in Deleters |-> NoReq]
  /\ local = [p \in Deleters |-> NoLocal]
  /\ calls = [p \in Deleters |-> <<>>]
  /\ raised = [p \in Deleters |-> "none"]
  /\ resp = [p \in Deleters |-> NoResp]

\* DELETE requests for the ids of the stored photos, up to three in flight.
DeleteNext ==
  \E p \in Deleters :
    \/ DeletePhotoFindOne(p) /\ req'[p].id \in {Str(n) : n \in 1..MaxPhotos}
    \/ DeletePhotoDestroy(p)
    \/ DeletePhotoDeleteOne(p)
    \/ Respond(p)

DeleteSpec == DeleteInit /\ [][DeleteNext]_vars

\* ---- vocabulary of the properties
MalformedId == <<"bad", 0>>
Ids(coll) == {coll[i].id : i \in 1..Len(coll)}
\* The names of the store calls in a call log, in order.
Fns(log) == [i \in 1..Len(log) |-> log[i].fn]
Called(log, fn) == \E i \in 1..Len(log) : log[i].fn = fn
CallRaised(log, fn) == \E i \in 1..Len(log) : log[i].fn = fn /\ ~log[i].ok
StoreCalls == {"count_documents", "find", "upload", "insert_one", "find_one",
               "destroy", "delete_one"}

RECURSIVE ConcatPages(_, _, _)
\* The photos of pages 1..page of get_all_photos, concatenated.
ConcatPages(coll, page, limit) ==
  IF page = 0 THEN <<>>
  ELSE ConcatPages(coll, page - 1, limit) \o ListPhotos(coll, page, limit).photos

\* Every page of the listing, for the limit given.
AllPages(coll, limit) ==
  ConcatPages(coll, ListPhotos(coll, 1, limit).total_pages, limit)

Listed(coll, limit, id) ==
  LET all == AllPages(coll, limit)
  IN \E i \in 1..Len(all) : all[i].id = id

ClientLimits == (1..MaxLimit) \cup {DefaultLimit}

\* ---- C1
\* C1 as stated: in every reachable state every document of the metadata
\* store refers to an asset that the asset store holds.
C1_EveryRecordHasItsAsset ==
  \A i \in 1..Len(photos_coll) : photos_coll[i].public_id \in assets

\* C1 as amended: every document of the metadata store refers to an asset
\* that the asset store holds, unless a delete request has already called
\* the asset store's destroy for that asset (delete_photo destroys the asset
\* before it deletes the document).
C1_RecordHasAssetUnlessDestroyCalled ==
  \A i \in 1..Len(photos_coll) :
    \/ photos_coll[i].public_id \in assets
    \/ photos_coll[i].public_id \in destroyed

\* A document whose asset a delete has removed, beside one whose asset is held.
C1_Witness ==
  /\ \E i \in 1..Len(photos_coll) :
       photos_coll[i].public_id \notin assets /\ photos_coll[i].public_id \in destroyed
  /\ \E i \in 1..Len(photos_coll) : photos_coll[i].public_id \in assets

\* ---- C2
C2_Step ==
  \A p \in Requests :
    req'[p].op = "create" =>
      /\ Called(calls'[p], "insert_one") =>
           /\ Len(calls'[p]) >= 2
           /\ calls'[p][1] = [fn |-> "upload", ok |-> TRUE]
           /\ calls'[p][2].fn = "insert_one"
           /\ local'[p].upload_result # None
      /\ CallRaised(calls'[p], "upload") =>
           /\ pc'[p] = "done"
           /\ resp'[p].status = 500
           /\ Fns(calls'[p]) = <<"upload">>
           /\ pc[p] = "idle" => (assets' = assets /\ photos_coll' = photos_coll)

\* C2: upload_photo calls insert_one only after the upload has returned;
\* when the upload raises the request ends with status 500, insert_one is
\* never called, and the step leaves both stores as they were.
C2_InsertOnlyAfterUpload == [][C2_Step]_vars

\* One upload has raised (request over, status 500) while another request
\* has inserted after its upload.
C2_Witness ==
  \E p, q \in Requests :
    /\ req[p].op = "create" /\ CallRaised(calls[p], "upload") /\ pc[p] = "done"
    /\ req[q].op = "create" /\ Called(calls[q], "insert_one")

\* ---- C3
\* C3: when upload and insert_one have both returned, a 200 response carries
\* exactly the public_id and secure_url the upload returned, and as long as
\* no delete_one has removed the document, the pages of get_all_photos taken
\* together contain it, for every limit.
C3_CreatedRecordMatchesUploadAndIsListed ==
  \A p \in Requests :
    (req[p].op = "create" /\ local[p].result # None) =>
      /\ (pc[p] = "done" /\ resp[p].status = 200) =>
           /\ resp[p].body[1].public_id = local[p].upload_result[1].public_id
           /\ resp[p].body[1].secure_url = local[p].upload_result[1].secure_url
           /\ resp[p].body[1].id = Str(local[p].result[1])
      /\ local[p].result[1] \notin removed =>
           \A limit \in ClientLimits : Listed(photos_coll, limit, Str(local[p].result[1]))

\* A create has answered 200 and its document is one of two in the store.
C3_Witness ==
  \E p \in Requests :
    /\ req[p].op = "create" /\ pc[p] = "done" /\ resp[p].status = 200
    /\ req[p].title # "" /\ req[p].file = "data"
    /\ Len(photos_coll) >= 2
    /\ local[p].result[1] \in Ids(photos_coll)

\* ---- C4
C4_Step ==
  /\ \A oid \in removed' :
       /\ FindOne(photos_coll', oid) = None
       /\ \A limit \in ClientLimits : ~Listed(photos_coll', limit, Str(oid))
  /\ \A p \in Requests :
       (pc[p] = "idle" /\ req'[p].op = "delete" /\ req'[p].id \in succeeded
          /\ CallRaised(calls'[p], "find_one") = FALSE /\ Called(calls'[p], "find_one"))
       => resp'[p].status = 404

\* C4: once DELETE /photos/{id} has answered 200, the document of that id is
\* in no page of get_all_photos, a lookup of the id finds nothing, and a
\* later delete of the same id whose lookup returns answers not-found (404).
C4_DeletedStaysGoneAndNotFound == [][C4_Step]_vars

\* ---- C5
\* C5: DELETE /photos/{id} answers 400 for a malformed id, 404 for a
\* well-formed id whose lookup finds no document, and 500 only when a call
\* to one of the stores has raised.
C5_DeleteStatusCodes ==
  \A p \in Requests :
    (pc[p] = "done" /\ req[p].op = "delete") =>
      /\ req[p].id = MalformedId => resp[p].status = 400
      /\ (req[p].id # MalformedId /\ Fns(calls[p]) = <<"find_one">>
            /\ ~CallRaised(calls[p], "find_one")) => resp[p].status = 404
      /\ resp[p].status = 500 => \E fn \in StoreCalls : CallRaised(calls[p], fn)

\* The part of C4 that does not depend on the status code: a document a
\* delete_one has removed is found by no lookup and is in no page.
C4_DeletedStaysGone ==
  \A oid \in removed :
    /\ FindOne(photos_coll, oid) = None
    /\ \A limit \in ClientLimits : ~Listed(photos_coll, limit, Str(oid))

\* ---- C6
C6_Step ==
  \A p \in Requests :
    (req'[p].op = "delete" /\ req'[p].id = MalformedId) =>
      /\ calls'[p] = <<>>
      /\ pc'[p] = "done"
      /\ resp'[p].status >= 400
      /\ pc[p] = "idle" => (assets' = assets /\ photos_coll' = photos_coll)

\* C6: delete_photo on a malformed id calls neither store (its call log
\* stays empty), ends with an error response, and the step leaves the asset
\* store and the metadata store as they were.
C6_MalformedIdCallsNoStore == [][C6_Step]_vars

\* A delete of a malformed id has ended while the stores hold a photo.
C6_Witness ==
  \E p \in Requests :
    /\ pc[p] = "done" /\ req[p].op = "delete" /\ req[p].id = MalformedId
    /\ calls[p] = <<>>
    /\ photos_coll # <<>> /\ assets # {}

\* ---- C7
C7_Step ==
  \A p \in Requests :
    (req'[p].op = "delete" /\ req'[p].id # MalformedId
       /\ local'[p].photo_to_delete = None
       /\ Called(calls'[p], "find_one") /\ ~CallRaised(calls'[p], "find_one")) =>
      /\ calls'[p] = <<[fn |-> "find_one", ok |-> TRUE]>>
      /\ pc'[p] = "done"
      /\ resp'[p].status >= 400
      /\ pc[p] = "idle" => (assets' = assets /\ photos_coll' = photos_coll)

\* C7: delete_photo on a well-formed id whose lookup finds no document makes
\* that one find_one call and no other: destroy and delete_one are not
\* called, the request ends with an error response, and the step leaves both
\* stores as they were.
C7_NotFoundOnlyLooksUp == [][C7_Step]_vars

\* A delete of a well-formed id has found nothing, its id being that of a
\* document deleted before, while the stores hold another photo.
C7_Witness ==
  \E p \in Requests :
    /\ pc[p] = "done" /\ req[p].op = "delete" /\ req[p].id # MalformedId
    /\ local[p].photo_to_delete = None
    /\ calls[p] = <<[fn |-> "find_one", ok |-> TRUE]>>
    /\ ObjectId(req[p].id) \in removed
    /\ photos_coll # <<>>

\* ---- C8
C8_Step ==
  \A p \in Requests :
    req'[p].op = "delete" =>
      /\ Called(calls'[p], "delete_one") =>
           /\ Fns(calls'[p]) = <<"find_one", "destroy", "delete_one">>
           /\ calls'[p][2].ok
      /\ CallRaised(calls'[p], "destroy") =>
           /\ Fns(calls'[p]) = <<"find_one", "destroy">>
           /\ pc'[p] = "done"
           /\ resp'[p].status = 500
           /\ ~CallRaised(calls[p], "destroy") => photos_coll' = photos_coll
           /\ \/ ObjectId(req'[p].id) \in Ids(photos_coll')
              \/ ObjectId(req'[p].id) \in removed'

\* C8: delete_photo calls destroy before delete_one.  When destroy raises,
\* delete_one is never called by the request, the request ends with status
\* 500, the step leaves the metadata store as it was, and the document is
\* still in the metadata store unless another request's delete_one removed it.
C8_DestroyFailureKeepsMetadata == [][C8_Step]_vars

\* A destroy has raised: the request is over with 500 and the document is
\* still stored; another delete has gone through destroy and delete_one.
C8_Witness ==
  \E p, q \in Requests :
    /\ req[p].op = "delete" /\ CallRaised(calls[p], "destroy") /\ pc[p] = "done"
    /\ ObjectId(req[p].id) \in Ids(photos_coll)
    /\ req[q].op = "delete" /\ Called(calls[q], "delete_one") /\ resp[q].status = 200

\* ---- C9
\* C9: for the dataset as it is and every limit >= 1 a client can ask for,
\* the photos of pages 1..total_pages taken together are the documents of
\* the metadata store, each exactly once; and each 200 response of
\* get_all_photos is the page of that listing.
C9_PagesHoldEveryRecordOnce ==
  /\ \A limit \in ClientLimits :
       LET all == AllPages(photos_coll, limit)
       IN /\ Len(all) = Len(photos_coll)
          /\ \A k \in 1..Len(photos_coll) :
               Cardinality({i \in 1..Len(all) : all[i] = StrId(photos_coll[k])}) = 1
  /\ \A p \in Requests :
       (pc[p] = "done" /\ req[p].op = "list" /\ resp[p].status = 200) =>
         resp[p].body[1] = ListPhotos(photos_coll, local[p].page, local[p].limit)

\* A second page with photos on it has been returned.
C9_Witness ==
  \E p \in Requests :
    /\ pc[p] = "done" /\ req[p].op = "list" /\ resp[p].status = 200
    /\ resp[p].body[1].page = 2 /\ resp[p].body[1].limit = 2
    /\ resp[p].body[1].photos # <<>>
    /\ resp[p].body[1].total_pages = 2

\* ---- C10
\* The place of document k in descending created_at order, documents of
\* equal created_at in insertion order.
RankOf(coll, k) ==
  1 + Cardinality({j \in 1..Len(coll) :
        \/ coll[j].created_at > coll[k].created_at
        \/ coll[j].created_at = coll[k].created_at /\ j < k})

Ranked(coll, r) == StrId(coll[CHOOSE k \in 1..Len(coll) : RankOf(coll, k) = r])

\* The documents ranked (page-1)*limit+1 .. page*limit, as far as they exist.
RankedPage(coll, page, limit) ==
  LET first == (page - 1) * limit + 1
      last == Min(page * limit, Len(coll))
  IN [i \in 1..(IF last < first THEN 0 ELSE last - first + 1) |->
        Ranked(coll, first + i - 1)]

Descending(photos) ==
  \A i, j \in 1..Len(photos) : i < j => photos[i].created_at >= photos[j].created_at

\* C10: get_all_photos(page, limit) returns exactly the documents ranked
\* (page-1)*limit+1 .. page*limit in descending created_at order, in that
\* order; over 25 photos created oldest to newest, page 1 with limit 10 is
\* the 10 newest, newest first, and total_pages is 3.
C10_PageIsTheRankedSlice ==
  /\ \A page \in 1..MaxPage, limit \in ClientLimits :
       /\ ListPhotos(photos_coll, page, limit).photos = RankedPage(photos_coll, page, limit)
       /\ Descending(ListPhotos(photos_coll, page, limit).photos)
  /\ \A p \in Requests :
       (pc[p] = "done" /\ req[p].op = "list" /\ resp[p].status = 200) =>
         /\ resp[p].body[1].photos =
              RankedPage(photos_coll, resp[p].body[1].page, resp[p].body[1].limit)
         /\ (photos_coll = TwentyFive /\ resp[p].body[1].page = 1
               /\ resp[p].body[1].limit = 10) =>
              /\ [i \in 1..10 |-> resp[p].body[1].photos[i].id] = [i \in 1..10 |-> Str(26 - i)]
              /\ Len(resp[p].body[1].photos) = 10
              /\ resp[p].body[1].total_pages = 3

\* Page 1 with limit 10 has been returned over the 25 photos.
C10_Witness ==
  \E p \in Requests :
    /\ pc[p] = "done" /\ req[p].op = "list" /\ resp[p].status = 200
    /\ photos_coll = TwentyFive
    /\ resp[p].body[1].page = 1 /\ resp[p].body[1].limit = 10

\* ---- C11
\* The least number of pages of `limit` items that hold `total` items.
CeilDiv(total, limit) ==
  CHOOSE k \in 0..total :
    /\ k * limit >= total
    /\ k = 0 \/ (k - 1) * limit < total

\* C11: for every total_photos >= 0 and every effective limit >= 1 the
\* total_pages of get_all_photos is (total_photos + limit - 1) div limit,
\* which is the ceiling of total_photos / limit and is 0 for an empty
\* collection; and whenever skip = (page-1)*limit is at least total_photos,
\* the empty collection included, the request answers 200 with no photos.
C11_TotalPagesAndPagesPastTheEnd ==
  /\ \A page \in Pages, limit \in Limits \cup {DefaultLimit} :
       LET body == ListPhotos(photos_coll, page, limit)
       IN /\ body.limit >= 1
          /\ body.total_pages = (body.total_photos + body.limit - 1) \div body.limit
          /\ body.total_pages = CeilDiv(body.total_photos, body.limit)
          /\ body.total_photos = 0 => body.total_pages = 0
          /\ Skip(body.page, body.limit) >= body.total_photos => body.photos = <<>>
  /\ \A p \in Requests :
       (pc[p] = "done" /\ req[p].op = "list" /\ raised[p] = "none") =>
         /\ resp[p].status = 200
         /\ resp[p].body[1].limit >= 1
         /\ resp[p].body[1].total_photos = Len(photos_coll)
         /\ resp[p].body[1].total_pages =
              CeilDiv(resp[p].body[1].total_photos, resp[p].body[1].limit)
         /\ Skip(resp[p].body[1].page, resp[p].body[1].limit) >= resp[p].body[1].total_photos
              => resp[p].body[1].photos = <<>>

\* A page past the last one has been returned, empty, over three photos
\* that fill two pages.
C11_Witness ==
  \E p \in Requests :
    /\ pc[p] = "done" /\ req[p].op = "list" /\ resp[p].status = 200
    /\ resp[p].body[1].total_photos = 3 /\ resp[p].body[1].limit = 2
    /\ resp[p].body[1].total_pages = 2
    /\ resp[p].body[1].page = 3
    /\ resp[p].body[1].photos = <<>>

\* The empty collection has been listed: no photos, no pages, status 200.
C11_EmptyCollectionListed ==
  \E p \in Requests :
    /\ pc[p] = "done" /\ req[p].op = "list" /\ resp[p].status = 200
    /\ resp[p].body[1].total_photos = 0
    /\ resp[p].body[1].total_pages = 0
    /\ resp[p].body[1].photos = <<>>

\* ---- C12
\* The response of get_all_photos when page and limit are taken as
\* `page` and `limit`: they are echoed, and skip, the slice and total_pages
\* are computed from them.
ListedWith(coll, page, limit) ==
  [photos |-> [i \in 1..Len(SkipLimit(SortCreatedAt(coll), (page - 1) * limit, limit)) |->
                 StrId(SkipLimit(SortCreatedAt(coll), (page - 1) * limit, limit)[i])],
   page |-> page,
   limit |-> limit,
   total_photos |-> Len(coll),
   total_pages |-> CeilDiv(Len(coll), limit)]

\* C12 as stated: get_all_photos treats every page < 1 as page 1 and every
\* limit < 1 as limit 1; the response echoes the normalised values and is
\* computed from them.
C12_LimitBelowOneIsOne ==
  \A p \in Requests :
    (pc[p] = "done" /\ req[p].op = "list" /\ raised[p] = "none") =>
      /\ resp[p].status = 200
      /\ resp[p].body[1] =
           ListedWith(photos_coll,
                      IF req[p].page < 1 THEN 1 ELSE req[p].page,
                      IF req[p].limit < 1 THEN 1 ELSE req[p].limit)

\* C12 as amended: get_all_photos treats every page < 1 as page 1 and
\* every limit < 1 as limit 10; the response echoes the normalised values,
\* and skip and total_pages are computed from them.
C12_LimitBelowOneIsTen ==
  \A p \in Requests :
    (pc[p] = "done" /\ req[p].op = "list" /\ raised[p] = "none") =>
      /\ resp[p].status = 200
      /\ resp[p].body[1] =
           ListedWith(photos_coll,
                      IF req[p].page < 1 THEN 1 ELSE req[p].page,
                      IF req[p].limit < 1 THEN 10 ELSE req[p].limit)

\* A request with page 0 and limit 0 has been answered over three photos:
\* page 1, limit 10, all three photos on one page.
C12_Witness ==
  \E p \in Requests :
    /\ pc[p] = "done" /\ req[p].op = "list" /\ resp[p].status = 200
    /\ req[p].page = 0 /\ req[p].limit = 0
    /\ resp[p].body[1].page = 1 /\ resp[p].body[1].limit = 10
    /\ Len(resp[p].body[1].photos) = 3
    /\ resp[p].body[1].total_pages = 1

\* ---- C13
\* C13: an upload request whose file is missing (no file name) or empty (a
\* named file of zero bytes) is answered 400 at once and makes no store
\* call, neither the asset store's upload nor insert_one.
C13_MissingOrEmptyFileNotAttempted ==
  \A p \in Requests :
    (req[p].op = "create" /\ req[p].file \in {"noname", "empty"}) =>
      /\ pc[p] = "done"
      /\ resp[p].status = 400
      /\ calls[p] = <<>>

\* The part of C13 that the handler keeps: a request without a file name
\* is answered 400 and makes no store call.
C13_NoFileNameNotAttempted ==
  \A p \in Requests :
    (req[p].op = "create" /\ req[p].file = "noname") =>
      /\ pc[p] = "done"
      /\ resp[p].status = 400
      /\ calls[p] = <<>>

\* A named file of zero bytes has been sent to the asset store, and the
\* request was answered 500.
C13_EmptyFileAttempted ==
  \E p \in Requests :
    /\ pc[p] = "done" /\ req[p].op = "create" /\ req[p].file = "empty"
    /\ Fns(calls[p]) = <<"upload">>
    /\ resp[p].status = 500

\* ---- C14
\* A call log in which the calls `fns` were made in this order and all returned.
AllReturned(log, fns) ==
  /\ Fns(log) = fns
  /\ \A i \in 1..Len(log) : log[i].ok

\* The step on which request p is answered.
Answered(p) == pc[p] # "done" /\ pc'[p] = "done"

C14_Step ==
  \A p \in Requests :
    Answered(p) =>
      /\ resp'[p].status \in {200, 400, 500}
      /\ resp'[p].status # 200 => resp'[p].body = None /\ raised'[p] # "none"
      /\ (resp'[p].status = 200 /\ req'[p].op = "create") =>
           /\ AllReturned(calls'[p], <<"upload", "insert_one", "find_one">>)
           /\ local[p].upload_result # None
           /\ local[p].result # None
           /\ FindOne(photos_coll, local[p].result[1]) = Some([resp'[p].body[1] EXCEPT !.id = @[2]])
           /\ resp'[p].body[1].public_id = local[p].upload_result[1].public_id
      /\ (resp'[p].status = 200 /\ req'[p].op = "delete") =>
           /\ AllReturned(calls'[p], <<"find_one", "destroy", "delete_one">>)
           /\ DeletedCount(photos_coll, ObjectId(req[p].id)) = 1
           /\ ObjectId(req[p].id) \notin Ids(photos_coll')
           /\ local[p].photo_to_delete[1].public_id \notin assets

\* C14: an upload request is answered 200 only on a step where upload,
\* insert_one and the find_one re-read have all returned and the re-read
\* found the inserted document; a delete request is answered 200 only on a
\* step where find_one and destroy returned and delete_one returned with a
\* deleted count of exactly 1; every other answer is an error status (400
\* or 500) without a body.
C14_SuccessOnlyWhenEveryStepSucceeded == [][C14_Step]_vars

\* One upload answered 200 after its three calls returned, beside a delete
\* answered 500 after its destroy returned and its delete_one raised.
C14_Witness ==
  \E p, q \in Requests :
    /\ pc[p] = "done" /\ req[p].op = "create" /\ resp[p].status = 200
    /\ AllReturned(calls[p], <<"upload", "insert_one", "find_one">>)
    /\ pc[q] = "done" /\ req[q].op = "delete" /\ resp[q].status = 500
    /\ Fns(calls[q]) = <<"find_one", "destroy", "delete_one">>
    /\ CallRaised(calls[q], "delete_one")

\* ---- C15
C15_Step ==
  /\ assets' = assets
  /\ photos_coll' = photos_coll
  /\ \A p \in Requests :
       (Answered(p) /\ req'[p].op = "list" /\ raised'[p] = "none") =>
         /\ resp'[p].status = 200
         /\ resp'[p].body[1] = ListPhotos(photos_coll, req[p].page, req[p].limit)
         /\ resp'[p].body[1] = ListPhotos(photos_coll', req[p].page, req[p].limit)

\* C15: no step of get_all_photos changes the asset store or the metadata
\* store, and over a dataset that does not change the response is a
\* function of the dataset and of (page, limit) alone: the request answered
\* on some step returns what the same request returns when it is made again
\* after that step.
C15_ListReadsOnlyAndRepeats == [][C15_Step]_vars

\* A page of two photos has been returned and both stores still hold the
\* three photos that were there before.
C15_Witness ==
  \E p \in Requests :
    /\ pc[p] = "done" /\ req[p].op = "list" /\ resp[p].status = 200
    /\ Len(resp[p].body[1].photos) = 2
    /\ Len(photos_coll) = 3 /\ assets = {1, 2, 3}
    /\ photos_coll = StoredAfter(3, {1, 2, 3}, [i \in 1..3 |-> photos_coll[i].created_at])
    /\ resp[p].body[1] = ListPhotos(photos_coll, req[p].page, req[p].limit)

\* ---- C16
\* Request p is a delete that passed the lookup, whose destroy and
\* delete_one returned, and whose delete_one reported a deleted count
\* other than 1: another delete of the same id removed the document first.
LostTheRace(p) ==
  /\ pc[p] = "done" /\ req[p].op = "delete"
  /\ AllReturned(calls[p], <<"find_one", "destroy", "delete_one">>)
  /\ ObjectId(req[p].id) \in removed
  /\ resp[p].status # 200

\* C16: of two delete requests for the same stored id that both pass the
\* lookup, the one whose delete_one reports a deleted count other than 1 is
\* answered 404 (not found), and it makes no further store call.
C16_LosingDeleteAnswers404 ==
  \A p \in Requests :
    LostTheRace(p) => resp[p].status = 404 /\ Len(calls[p]) = 3

\* What the handler does for the delete that lost: it raises the 404 of
\* line 137, makes no further call, and answers 500.
C16_LosingDeleteAnswers500 ==
  \A p \in Requests :
    LostTheRace(p) =>
      raised[p] = "HTTP404" /\ resp[p].status = 500 /\ Len(calls[p]) = 3

\* Two deletes of one id, both past the lookup: one answered 200, the
\* other lost the race.
C16_BothPassedLookup ==
  \E p, q \in Requests :
    /\ p # q /\ req[p].id = req[q].id
    /\ pc[p] = "done" /\ req[p].op = "delete" /\ resp[p].status = 200
    /\ LostTheRace(q)

\* ---- C17
AssetStoreCalls == {"upload", "destroy"}

\* The store calls of a handler, in the order of its code.
HandlerCalls(op) ==
  CASE op = "create" -> <<"upload", "insert_one", "find_one">>
    [] op = "delete" -> <<"find_one", "destroy", "delete_one">>
    [] op = "list" -> <<"count_documents", "find">>
    [] OTHER -> <<>>

\* The call log is the first calls of its handler, in order and each made
\* once, and only the last call made can be one that raised.
InOrderUnretried(log, op) ==
  /\ Len(log) <= Len(HandlerCalls(op))
  /\ Fns(log) = SubSeq(HandlerCalls(op), 1, Len(log))
  /\ \A i \in 1..(Len(log) - 1) : log[i].ok

\* C17 as stated: every request makes at most two store calls, one after
\* the other and none twice, the asset store's before the metadata store's.
C17_AtMostTwoCallsAssetStoreFirst ==
  \A p \in Requests :
    /\ Len(calls[p]) <= 2
    /\ \A i \in 1..(Len(calls[p]) - 1) : calls[p][i].ok
    /\ \A i, j \in 1..Len(calls[p]) :
         /\ (i # j) => calls[p][i].fn # calls[p][j].fn
         /\ (i < j /\ calls[p][j].fn \in AssetStoreCalls) => calls[p][i].fn \in AssetStoreCalls

\* C17 as amended: every request makes at most three store calls, in the
\* order of its handler (upload: upload, insert_one, find_one; delete:
\* find_one, destroy, delete_one; list: count_documents, find), each after
\* the one before it has returned, none made twice; a call that raises is
\* the request's last call and the request is answered.
C17_AtMostThreeCallsInHandlerOrder ==
  \A p \in Requests :
    /\ Len(calls[p]) <= 3
    /\ InOrderUnretried(calls[p], req[p].op)
    /\ (calls[p] # <<>> /\ ~calls[p][Len(calls[p])].ok) => pc[p] = "done"
    /\ pc[p] = "idle" => calls[p] = <<>>

\* A delete has made its three calls, the metadata store's lookup first
\* and the asset store's destroy second, while a listing has made its two.
C17_Witness ==
  /\ pc[1] = "done" /\ req[1].op = "list"
  /\ AllReturned(calls[1], <<"count_documents", "find">>)
  /\ pc[2] = "done" /\ req[2].op = "delete"
  /\ AllReturned(calls[2], <<"find_one", "destroy", "delete_one">>)

\* ---- C18
\* C18: when insert_one raises after the upload has returned, the upload
\* request makes no destroy call (and no other call), is answered 500, and
\* the asset it uploaded stays in the asset store while no document of the
\* metadata store refers to it.
C18_FailedInsertLeavesOrphanAsset ==
  \A p \in Requests :
    (req[p].op = "create" /\ CallRaised(calls[p], "insert_one")) =>
      /\ pc[p] = "done"
      /\ resp[p].status = 500 /\ resp[p].body = None
      /\ Fns(calls[p]) = <<"upload", "insert_one">>
      /\ calls[p][1].ok
      /\ local[p].upload_result # None
      /\ local[p].upload_result[1].public_id \in assets
      /\ local[p].upload_result[1].public_id \notin destroyed
      /\ \A i \in 1..Len(photos_coll) :
           photos_coll[i].public_id # local[p].upload_result[1].public_id

\* An upload's insert_one has raised beside another upload that went
\* through: two assets held, one document.
C18_Witness ==
  \E p \in Requests :
    /\ pc[p] = "done" /\ req[p].op = "create"
    /\ CallRaised(calls[p], "insert_one")
    /\ Cardinality(assets) = 2
    /\ Len(photos_coll) = 1

\* ---- C19
\* Request p is a delete that has been answered 200.
DeleteSucceeded(p) ==
  pc[p] = "done" /\ req[p].op = "delete" /\ resp[p].status = 200

C19_Step ==
  \A p \in Deleters :
    (Answered(p) /\ req'[p].op = "delete" /\ resp'[p].status = 200) =>
      /\ req[p].id \notin succeeded
      /\ \A q \in Deleters \ {p} : ~(DeleteSucceeded(q) /\ req[q].id = req[p].id)
      /\ req[p].id \in succeeded'

\* C19: however many delete requests for one id are in flight and however
\* their steps interleave, a delete of that id is answered 200 at most
\* once: a delete is never answered 200 for an id for which a delete has
\* been answered 200 before.  (destroy may have been called for the
\* photo's asset by several of them.)
C19_AtMostOneDeleteSucceeds == [][C19_Step]_vars

\* Three deletes of one id have all called destroy, and exactly one of
\* them has been answered 200.
C19_Witness ==
  /\ \A p \in Deleters :
       /\ pc[p] = "done" /\ req[p].op = "delete" /\ req[p].id = Str(1)
       /\ Called(calls[p], "destroy")
  /\ Cardinality({p \in Deleters : DeleteSucceeded(p)}) = 1

\* ---- C20
Max(a, b) == IF a > b THEN a ELSE b

\* min(limit, max(0, total_photos - (page-1)*limit)) of a response body.
ItemsDue(body) ==
  Min(body.limit, Max(0, body.total_photos - (body.page - 1) * body.limit))

C20_Step ==
  \A p \in Requests :
    (pc[p] = "list_find" /\ Answered(p) /\ raised'[p] = "none"
       /\ CountDocuments(photos_coll) = local[p].total_photos) =>
      /\ resp'[p].status = 200
      /\ Len(resp'[p].body[1].photos) = ItemsDue(resp'[p].body[1])

\* C20: when the collection holds at the find call of a list request as
\* many documents as its count_documents call counted, which is so whenever
\* no upload and no delete took effect between the two calls, the number
\* of photos in the response is min(limit, max(0, total_photos -
\* (page-1)*limit)), with page and limit as normalised.
C20_ItemCountWhenCountAndFindAgree == [][C20_Step]_vars

\* A second page of one photo has been returned, over two photos, while
\* an upload or a delete is in flight.
C20_Witness ==
  /\ pc[1] = "done" /\ req[1].op = "list" /\ resp[1].status = 200
  /\ resp[1].body[1].page = 2 /\ resp[1].body[1].limit = 1
  /\ resp[1].body[1].total_photos = 2
  /\ Len(resp[1].body[1].photos) = 1
  /\ pc[2] \notin {"idle", "done"}

\* Without that precondition the numbers need not agree: a response whose
\* total_photos was counted before a write took effect and whose photos
\* were found after it.
C20_CountAndFindDisagree ==
  /\ pc[1] = "done" /\ req[1].op = "list" /\ resp[1].status = 200
  /\ Len(resp[1].body[1].photos) # ItemsDue(resp[1].body[1])

====
